---- MODULE Spec2Model ----
(***************************************************************************)
(* Model of the test-funding script (class TestFunder and main) that is    *)
(* stored after the workflow text in src/.github/workflows/                *)
(* knip-reporter.yml, lines 76-349.                                        *)
(*                                                                         *)
(* The script drives an Anvil node with `cast` commands.  The node's       *)
(* ledger (balance and allowance of the funding wallet, impersonation of   *)
(* the whale) is the external state; every command is one step whose       *)
(* outcome (exit status, thrown spawn error, whether the node applied it)  *)
(* is chosen nondeterministically.                                         *)
(*                                                                         *)
(* Amounts are scaled down: the script compares amounts after parseInt,    *)
(* which yields an IEEE-754 double (53 significant bits) and so rounds     *)
(* the 74-bit balance and the 120-bit allowance.  The model keeps that     *)
(* rounding with a MantBits-bit significand and targets that sit in their  *)
(* binades as the script's targets do in theirs.                           *)
(***************************************************************************)
EXTENDS Integers, Sequences, FiniteSets, TLC

\* ------------------------------------------------------------ constants

\* significand width of the numbers parseInt returns (53 in JavaScript)
MantBits == 3

\* expected.balance: like 10^22 it is exactly representable, with an even
\* significand, and so is twice its value
expectedBalance == 12

\* expected.allowance: like 999999999999999111119999999999999999 it is not
\* representable and parseInt rounds it up by less than half a unit
expectedAllowance == 54

\* retry(fn, retries = 5)
DefaultRetries == 5

\* main: let retries = 5
PingRetries == 5

\* parseInt of an output that does not start with a digit
NaN == -1

\* the standard output of a command that printed nothing
Empty == -1

\* ------------------------------------------------------------ bounds

\* the funding wallet starts with a balance in 0..MaxInitBalance
MaxInitBalance == 20

\* the allowance starts at 0 or within AllowanceSpread of expected.allowance
AllowanceSpread == 1

\* invocations of _transferPayload made by the stand-alone driver
MaxInvocations == 3

\* ------------------------------------------------------------ numbers

RECURSIVE Pow2(_)
Pow2(k) == IF k = 0 THEN 1 ELSE 2 * Pow2(k - 1)

RECURSIVE BitLen(_)
BitLen(n) == IF n = 0 THEN 0 ELSE 1 + BitLen(n \div 2)

\* the double nearest to the natural number n (ties to even significand)
ToNumber(n) ==
    IF BitLen(n) <= MantBits THEN n
    ELSE LET u == Pow2(BitLen(n) - MantBits)
             q == n \div u
             r == n % u
         IN  IF 2 * r < u THEN q * u
             ELSE IF 2 * r > u THEN (q + 1) * u
             ELSE IF q % 2 = 0 THEN q * u ELSE (q + 1) * u

\* parseInt(stdout): the number the leading decimal digits denote, or NaN
parseInt(s) == IF s = Empty THEN NaN ELSE ToNumber(s)

\* a === b, a > b, a < b on numbers: false as soon as one side is NaN
StrictEq(a, b) == a # NaN /\ b # NaN /\ a = b
GreaterThan(a, b) == a # NaN /\ b # NaN /\ a > b
LessThan(a, b) == a # NaN /\ b # NaN /\ a < b

\* a - b on two numbers that are not NaN: the double nearest to the difference
Minus(a, b) == IF a >= b THEN ToNumber(a - b) ELSE 0 - ToNumber(b - a)

\* ------------------------------------------------------------ state

VARIABLES
    \* the node's ledger
    balance,        \* balanceOf(fundingWallet) on the reward token
    allowance,      \* allowance(fundingWallet, permit2) on the reward token
    impersonated,   \* the node accepts unlocked sends from the whale
    \* the script
    pc,             \* the command the script issues next, or where it ended
    step,           \* index into Object.entries(steps): 1, 2, 3
    caller,         \* who awaits the running step function
    i,              \* retry's counter, for the step being retried
    j,              \* retry's counter, for _clearBalance
    isMoving,       \* execute's flag
    isAnvilReady,   \* main's flag
    retries,        \* main's countdown
    difference,     \* _clearBalance's local
    vAllowance,     \* validate's local: output of the allowance query
    vBalance,       \* validate's local: output of the balance query
    error,          \* the error main() rejected with, "" if none
    exitCode,       \* the status the process exited with, -1 while it runs
    \* observations
    calls,          \* invocations of the current step's function
    invoked,        \* the steps whose function has been invoked
    successes,      \* successes[s]: times step s's function returned true
    attempts,       \* invocations of fn by the current retry(fn) of a step
    cbAttempts,     \* invocations of _clearBalance by the current retry
    exhausted,      \* 0, or the step whose retry(fn) used up its budget
    cbRaised,       \* the last retry of _clearBalance used up its budget
    validated,      \* validate ran to its end without throwing
    vReads,         \* queries of validate that returned
    tpOk,           \* every command of the last invocation of _transferPayload
                    \* succeeded so far; the next five are kept while it holds
    tpStart,        \* balance when it was invoked
    tpStartAllowance, \* allowance at that moment
    tpTopUp,        \* amount of the whale's transfer it issued, -1 if none
    tpClaw,         \* amount of the last claw-back it issued, -1 if none
    tpClawN,        \* claw-back transfers it issued
    allOk,          \* every command since the start succeeded
    transfersSent,  \* transfers issued by the driver's earlier invocations,
                    \* kept while allOk holds
    \* the stand-alone driver of _transferPayload
    invocations,    \* invocations made
    lastResult,     \* how the last one ended: "true", "false", "throw"
    \* the ledger as the process found it
    balance0,       \* balance at the start, kept while every command succeeds
    allowance0      \* allowance at the start, kept until the approval step is
                    \* over and from then on while every command succeeds

node == <<balance, allowance, impersonated>>
script == <<pc, step, caller, i, j, isMoving, isAnvilReady, retries, difference,
            vAllowance, vBalance, error, exitCode>>
observed == <<calls, invoked, successes, attempts, cbAttempts, exhausted, cbRaised, validated, vReads,
              tpStart, tpStartAllowance, tpOk, tpTopUp, tpClaw, tpClawN, transfersSent, allOk>>

\* an observation v is kept while ok holds and dropped to d otherwise
Keep(ok, v, d) == IF ok THEN v ELSE d
driver == <<invocations, lastResult>>
initial == <<balance0, allowance0>>
vars == <<node, script, observed, driver, initial>>

\* ------------------------------------------------------------ outcomes

\* _exec of a send: spawnSync throws (nothing ran), or cast exits with status
\* zero or non-zero; the node has applied the transaction or has not
SendOutcomes ==
    {[status |-> s, applied |-> a] : s \in {"ok", "fail"}, a \in BOOLEAN}
        \cup {[status |-> "throw", applied |-> FALSE]}

\* _exec of a query: spawnSync throws, cast prints the value, or cast fails and
\* prints nothing on its standard output
ReadOutcomes == {"ok", "fail", "throw"}

stdout(r, value) == IF r = "ok" THEN value ELSE Empty

Succeeded(o) == o.status = "ok" /\ o.applied

\* what `return x.status === 0` or the throw of _exec hands to the caller
Returned(o) ==
    IF o.status = "throw" THEN "throw"
    ELSE IF o.status = "ok" THEN "true" ELSE "false"

\* ------------------------------------------------------------ retry

\* the loop guard written with <=, which allows one pass more
retryGuardOffByOne(n, max) == n <= max

\* a loop that never gives up
retryGuardForever(n, max) == TRUE

\* a loop that stops one pass early
retryGuardOneShort(n, max) == n + 1 < max

\* while (i < retries)
retryGuard(n, max) == n < max

\* a retry that ends with `return isSuccess` (false) instead of throwing
retryExhaustedReturnsFalse == "return_false"

\* after the loop: throw new Error("Failed to execute function")
retryExhausted == "raise"

\* one pass of retry's loop body after fn settled with isSuccess, counter at n:
\* return isSuccess, call fn again, or leave the loop
retry(isSuccess, n, max) ==
    IF isSuccess THEN "return_true"
    ELSE IF retryGuard(n + 1, max) THEN "again"
    ELSE retryExhausted

\* retry's first test of the loop guard, with i = 0
retryEnter(max) == IF retryGuard(0, max) THEN "again" ELSE retryExhausted

\* ------------------------------------------------------------ control

\* the script's control state as a record, so that what follows a return or a
\* throw is a function of it
Here ==
    [pc |-> pc, step |-> step, caller |-> caller, i |-> i, j |-> j,
     isMoving |-> isMoving, error |-> error, calls |-> calls,
     invoked |-> invoked, successes |-> successes, attempts |-> attempts,
     cbAttempts |-> cbAttempts, exhausted |-> exhausted, cbRaised |-> cbRaised,
     lastResult |-> lastResult]

Goto(c) ==
    /\ pc' = c.pc
    /\ step' = c.step
    /\ caller' = c.caller
    /\ i' = c.i
    /\ j' = c.j
    /\ isMoving' = c.isMoving
    /\ error' = c.error
    /\ calls' = c.calls
    /\ invoked' = c.invoked
    /\ successes' = c.successes
    /\ attempts' = c.attempts
    /\ cbAttempts' = c.cbAttempts
    /\ exhausted' = c.exhausted
    /\ cbRaised' = c.cbRaised
    /\ lastResult' = c.lastResult

\* the steps object with its first two entries exchanged
StepEntrySwapped(s) ==
    CASE s = 1 -> "approve"
      [] s = 2 -> "impersonate"
      [] s = 3 -> "tp_read"
\* the first command of step s's function
StepEntry(s) ==
    CASE s = 1 -> "impersonate"
      [] s = 2 -> "approve"
      [] s = 3 -> "tp_read"

\* an error leaves execute and main: main() rejects.  The frames are gone, and
\* the counts are kept only for a retry that used up its budget
Raise(c, msg) ==
    [c EXCEPT !.pc = "rejected", !.error = msg, !.caller = "execute",
              !.i = 0, !.j = 0,
              !.calls = Keep(c.exhausted # 0, @, 0),
              !.attempts = Keep(c.exhausted # 0, @, 0),
              !.cbAttempts = Keep(c.cbRaised, @, 0)]

\* the for loop moves to the next entry of steps; after the last one the
\* while loop ends (by the break, or by its test) and validate runs
NextStep(c) ==
    IF c.step < 3
    THEN [c EXCEPT !.pc = StepEntry(c.step + 1), !.step = c.step + 1,
                   !.caller = "execute", !.i = 0, !.calls = 0, !.attempts = 0]
    ELSE [c EXCEPT !.pc = "val_allow", !.caller = "execute", !.i = 0, !.j = 0,
                   !.calls = 0, !.attempts = 0, !.cbAttempts = 0,
                   !.cbRaised = FALSE]

\* the running step's function returned true
Succeed(c) == [c EXCEPT !.successes[c.step] = @ + 1]

\* execute, lines 118-126, and retry, lines 139-153: the step function settled
\* with r ("true", "false" or "throw", then with error msg)
AfterStep(c, r, msg) ==
    IF c.caller = "driver" THEN [c EXCEPT !.pc = "idle", !.lastResult = r]
    ELSE IF c.caller = "execute" THEN
        IF r = "throw" THEN Raise(c, msg)
        ELSE IF r = "true" THEN NextStep(Succeed(c))
        ELSE LET k == retryEnter(DefaultRetries)
                 c0 == [c EXCEPT !.i = 0, !.attempts = 0]
             IN  IF k = "again"
                 THEN [c0 EXCEPT !.pc = StepEntry(c.step), !.caller = "retry"]
                 ELSE IF k = "raise"
                 THEN Raise([c0 EXCEPT !.exhausted = c.step],
                            "Failed to execute function")
                 ELSE NextStep([c0 EXCEPT !.exhausted = c.step, !.isMoving = FALSE])
    ELSE LET k == retry(r = "true", c.i, DefaultRetries)
         IN  IF k = "return_true" THEN NextStep(Succeed(c))
             ELSE IF k = "again"
             THEN [c EXCEPT !.pc = StepEntry(c.step), !.i = c.i + 1]
             ELSE IF k = "raise"
             THEN Raise([c EXCEPT !.i = c.i + 1, !.exhausted = c.step],
                        "Failed to execute function")
             ELSE NextStep([c EXCEPT !.i = c.i + 1, !.exhausted = c.step,
                                     !.isMoving = FALSE])

\* _transferPayload, line 243: retry(() => this._clearBalance()) is entered
EnterClear(c) ==
    LET k == retryEnter(DefaultRetries)
        c0 == [c EXCEPT !.j = 0, !.cbAttempts = 0, !.cbRaised = FALSE]
    IN  IF k = "again" THEN [c0 EXCEPT !.pc = "cb_read"]
        ELSE IF k = "raise"
        THEN AfterStep([c0 EXCEPT !.cbRaised = TRUE], "throw",
                       "Failed to execute function")
        ELSE [c0 EXCEPT !.pc = "tp_send"]

\* retry, lines 139-153, around _clearBalance, which settled with r; the value
\* retry returns is not used by _transferPayload, which goes on to its send
AfterClear(c, r) ==
    LET k == retry(r = "true", c.j, DefaultRetries)
    IN  IF k = "return_true" THEN [c EXCEPT !.pc = "tp_send"]
        ELSE IF k = "again" THEN [c EXCEPT !.pc = "cb_read", !.j = c.j + 1]
        ELSE IF k = "raise"
        THEN AfterStep([c EXCEPT !.j = c.j + 1, !.cbRaised = TRUE], "throw",
                       "Failed to execute function")
        ELSE [c EXCEPT !.pc = "tp_send", !.j = c.j + 1]

\* a step function is invoked: one more call of it, and one more attempt of
\* the retry that awaits it
Invoked(c) ==
    [c EXCEPT !.calls = @ + 1, !.invoked = @ \cup {c.step},
              !.attempts = IF c.caller = "retry" THEN @ + 1 ELSE @]

\* ------------------------------------------------------------ decisions

\* the branch without its first test, balance === expected
transferBranchNoFixedPoint(b) ==
    IF GreaterThan(b, parseInt(expectedBalance)) THEN "clear" ELSE "send"

\* _transferPayload, lines 240-244, on the parsed balance
transferBranch(b) ==
    IF StrictEq(b, parseInt(expectedBalance)) THEN "return_true"
    ELSE IF GreaterThan(b, parseInt(expectedBalance)) THEN "clear"
    ELSE "send"

\* the transfer that sends the other expected value
transferAmountWrongField == expectedAllowance
\* _transferPayload, line 258: the amount of the whale's transfer
transferAmount == expectedBalance

\* the approval that sends the other expected value
approveAmountWrongField == expectedBalance
\* _approvePayload, line 226: the allowance the approval sets
approveAmount == expectedAllowance

\* _clearBalance, line 271, on the parsed balance (BigInt(NaN) throws)
clearDifference(b) == Minus(b, parseInt(expectedBalance))

\* the validation that names the other target
validateSwappedMessages(a, b) ==
    IF LessThan(parseInt(a), parseInt(expectedAllowance))
    THEN "Balance is not set correctly"
    ELSE IF LessThan(parseInt(b), parseInt(expectedBalance))
    THEN "Allowance is not set correctly"
    ELSE ""
\* validate, lines 159-165, on the two outputs: the error it throws, "" if none
validate(a, b) ==
    IF LessThan(parseInt(a), parseInt(expectedAllowance))
    THEN "Allowance is not set correctly"
    ELSE IF LessThan(parseInt(b), parseInt(expectedBalance))
    THEN "Balance is not set correctly"
    ELSE ""

\* validate, lines 160 and 164: the readings that the Error thrown on the
\* allowance read a and the balance read b carries: it is constructed from the
\* message string alone
errorReadings(a, b) == <<>>

\* a .catch handler that only logs and returns: the promise it yields resolves
\* and the .finally handler runs next
catchHandlerReturns == [pc |-> "resolved", exitCode |-> 1]

\* .catch((error) => { console.error(error); process.exit(1); }): the process
\* ends inside the handler, so the .finally handler after it never runs
catchHandler == [pc |-> "exited", exitCode |-> 1]

\* .finally(() => { process.exit(0); }) once main() has resolved
finallyHandler == [pc |-> "exited", exitCode |-> 0]

\* ------------------------------------------------------------ initial states

InitNode ==
    /\ balance \in 0..MaxInitBalance
    /\ allowance \in {0} \cup ((expectedAllowance - AllowanceSpread)
                                 ..(expectedAllowance + AllowanceSpread))
    /\ balance0 = balance
    /\ allowance0 = allowance

InitCommon ==
    /\ InitNode
    /\ i = 0 /\ j = 0 /\ isMoving = TRUE
    /\ isAnvilReady = FALSE /\ retries = PingRetries
    /\ difference = 0 /\ vAllowance = Empty /\ vBalance = Empty
    /\ error = "" /\ exitCode = -1
    /\ calls = 0 /\ invoked = {} /\ successes = [s \in 1..3 |-> 0]
    /\ attempts = 0 /\ cbAttempts = 0 /\ exhausted = 0 /\ cbRaised = FALSE
    /\ validated = FALSE /\ vReads = 0
    /\ tpStart = 0 /\ tpStartAllowance = 0 /\ tpOk = TRUE
    /\ tpTopUp = -1 /\ tpClaw = -1 /\ tpClawN = 0
    /\ transfersSent = 0 /\ allOk = TRUE
    /\ invocations = 0 /\ lastResult = ""

\* the process starts: main() is about to probe the node
Init ==
    /\ InitCommon
    /\ impersonated = FALSE
    /\ pc = "ping" /\ caller = "execute" /\ step = 1

\* ------------------------------------------------------------ main

\* the loop that forgets to throw once its budget is spent
readinessLoopNoThrow(ok, left) ==
    IF ok \/ left = 0 THEN "execute" ELSE "again"
\* main, lines 328-337: what the readiness loop does after a probe that
\* answered ok, with left probes remaining: the budget is tested first
readinessLoop(ok, left) ==
    IF left = 0 THEN "throw" ELSE IF ok THEN "execute" ELSE "again"

\* main, lines 328-337: one pass of the readiness loop
Ping(ok) ==
    /\ pc = "ping"
    /\ isAnvilReady' = ok
    /\ retries' = retries - 1
    /\ LET k == readinessLoop(ok, retries - 1)
       IN  /\ pc' = (IF k = "throw" THEN "rejected"
                     ELSE IF k = "execute" THEN StepEntry(1) ELSE "ping")
           /\ error' = (IF k = "throw" THEN "Could not connect to Anvil"
                        ELSE error)
    /\ allOk' = (allOk /\ ok)
    /\ balance0' = Keep(allOk', balance0, -1)
    /\ UNCHANGED <<node, step, caller, i, j, isMoving, difference, vAllowance,
                   vBalance, exitCode, calls, invoked, successes, attempts, cbAttempts, exhausted,
                   cbRaised, validated, vReads, tpStart, tpStartAllowance, tpOk, tpTopUp,
                   tpClaw, tpClawN, transfersSent, driver,
                   allowance0>>

\* _impersonateAccount, lines 181-191
Impersonate(o) ==
    /\ pc = "impersonate"
    /\ impersonated' = (impersonated \/ o.applied)
    /\ allOk' = (allOk /\ Succeeded(o))
    /\ balance0' = Keep(allOk', balance0, -1)
    /\ Goto(AfterStep(Invoked(Here), Returned(o), "spawn"))
    /\ UNCHANGED <<balance, allowance, isAnvilReady, retries, difference,
                   vAllowance, vBalance, exitCode, validated, vReads, tpStart,
                   tpStartAllowance, tpOk, tpTopUp, tpClaw, tpClawN,
                   transfersSent, invocations,
                   allowance0>>

\* _approvePayload, lines 213-234: approve(permit2, expected.allowance) sent
\* from the funding wallet
Approve(o) ==
    /\ pc = "approve"
    /\ allowance' = (IF o.applied THEN approveAmount ELSE allowance)
    /\ allOk' = (allOk /\ Succeeded(o))
    /\ balance0' = Keep(allOk', balance0, -1)
    /\ Goto(AfterStep(Invoked(Here), Returned(o), "spawn"))
    /\ UNCHANGED <<balance, impersonated, isAnvilReady, retries, difference,
                   vAllowance, vBalance, exitCode, validated, vReads, tpStart,
                   tpStartAllowance, tpOk, tpTopUp, tpClaw, tpClawN,
                   transfersSent, invocations,
                   allowance0>>

\* ------------------------------------------------------------ _transferPayload

\* _transferPayload, lines 237-244: the balance query and the branch on it
TransferRead(r) ==
    /\ pc = "tp_read"
    /\ tpOk' = (r = "ok")
    /\ tpStart' = Keep(r = "ok", balance, 0)
    /\ tpStartAllowance' = Keep(r = "ok", allowance, 0)
    /\ tpTopUp' = -1 /\ tpClaw' = -1 /\ tpClawN' = 0
    /\ allOk' = (allOk /\ r = "ok")
    /\ balance0' = Keep(allOk', balance0, -1)
    /\ allowance0' = Keep(allOk', allowance0, -1)
    /\ transfersSent' = Keep(allOk /\ r = "ok", transfersSent, 0)
    /\ LET c == [Invoked(Here) EXCEPT !.j = 0, !.cbAttempts = 0, !.cbRaised = FALSE]
           k == transferBranch(parseInt(stdout(r, balance)))
       IN  IF r = "throw" THEN Goto(AfterStep(c, "throw", "spawn"))
           ELSE IF k = "return_true" THEN Goto(AfterStep(c, "true", ""))
           ELSE IF k = "clear" THEN Goto(EnterClear(c))
           ELSE Goto([c EXCEPT !.pc = "tp_send"])
    /\ UNCHANGED <<node, isAnvilReady, retries, difference, vAllowance, vBalance,
                   exitCode, validated, vReads, invocations>>

\* _clearBalance, lines 270-271: the balance query and the difference
ClearRead(r) ==
    /\ pc = "cb_read"
    /\ tpOk' = (tpOk /\ r = "ok")
    /\ tpStart' = Keep(tpOk /\ r = "ok", tpStart, 0)
    /\ tpStartAllowance' = Keep(tpOk /\ r = "ok", tpStartAllowance, 0)
    /\ tpClaw' = Keep(tpOk /\ r = "ok", tpClaw, -1)
    /\ tpClawN' = Keep(tpOk /\ r = "ok", tpClawN, 0)
    /\ allOk' = (allOk /\ r = "ok")
    /\ balance0' = Keep(allOk', balance0, -1)
    /\ allowance0' = Keep(allOk', allowance0, -1)
    /\ transfersSent' = Keep(allOk /\ r = "ok", transfersSent, 0)
    /\ LET c == [Here EXCEPT !.cbAttempts = @ + 1]
           b == parseInt(stdout(r, balance))
       IN  IF r = "throw" \/ b = NaN
           THEN Goto(AfterClear(c, "throw")) /\ difference' = difference
           ELSE Goto([c EXCEPT !.pc = "cb_send"])
                /\ difference' = clearDifference(b)
    /\ UNCHANGED <<node, isAnvilReady, retries, vAllowance, vBalance, exitCode,
                   validated, vReads, tpTopUp, invocations>>

\* _clearBalance, lines 273-292: transfer(whale, difference) sent from the
\* funding wallet; the token applies it only if the wallet holds that much,
\* and cast accepts no negative amount
ClearSend(o) ==
    /\ pc = "cb_send"
    /\ o.applied => (0 <= difference /\ difference <= balance)
    /\ difference < 0 => o.status # "ok"
    /\ balance' = (IF o.applied THEN balance - difference ELSE balance)
    /\ difference' = 0
    /\ tpOk' = (tpOk /\ Succeeded(o))
    /\ tpStart' = Keep(tpOk /\ Succeeded(o), tpStart, 0)
    /\ tpStartAllowance' = Keep(tpOk /\ Succeeded(o), tpStartAllowance, 0)
    /\ tpClaw' = Keep(tpOk /\ Succeeded(o), difference, -1)
    /\ tpClawN' = Keep(tpOk /\ Succeeded(o), tpClawN + 1, 0)
    /\ allOk' = (allOk /\ Succeeded(o))
    /\ balance0' = Keep(allOk', balance0, -1)
    /\ allowance0' = Keep(allOk', allowance0, -1)
    /\ transfersSent' = Keep(allOk /\ Succeeded(o), transfersSent, 0)
    /\ Goto(AfterClear(Here, Returned(o)))
    /\ UNCHANGED <<allowance, impersonated, isAnvilReady, retries, vAllowance,
                   vBalance, exitCode, validated, vReads, tpTopUp, invocations>>

\* _transferPayload, lines 246-265: transfer(fundingWallet, expected.balance)
\* sent from the whale; the node applies it only if the whale is impersonated
TransferSend(o) ==
    /\ pc = "tp_send"
    /\ o.applied => impersonated
    /\ balance' = (IF o.applied THEN balance + transferAmount ELSE balance)
    /\ tpOk' = (tpOk /\ Succeeded(o))
    /\ tpStart' = Keep(tpOk /\ Succeeded(o), tpStart, 0)
    /\ tpStartAllowance' = Keep(tpOk /\ Succeeded(o), tpStartAllowance, 0)
    /\ tpTopUp' = Keep(tpOk /\ Succeeded(o), transferAmount, -1)
    /\ tpClaw' = Keep(tpOk /\ Succeeded(o), tpClaw, -1)
    /\ tpClawN' = Keep(tpOk /\ Succeeded(o), tpClawN, 0)
    /\ allOk' = (allOk /\ Succeeded(o))
    /\ balance0' = Keep(allOk', balance0, -1)
    /\ allowance0' = Keep(allOk', allowance0, -1)
    /\ transfersSent' = Keep(allOk /\ Succeeded(o), transfersSent, 0)
    /\ Goto(AfterStep(Here, Returned(o), "spawn"))
    /\ UNCHANGED <<allowance, impersonated, isAnvilReady, retries, difference,
                   vAllowance, vBalance, exitCode, validated, vReads, invocations>>

\* ------------------------------------------------------------ validate

\* validate, line 156: the allowance query
ValidateAllowance(r) ==
    /\ pc = "val_allow"
    /\ allOk' = (allOk /\ r = "ok")
    /\ balance0' = Keep(allOk', balance0, -1)
    /\ allowance0' = Keep(allOk', allowance0, -1)
    /\ IF r = "throw"
       THEN pc' = "rejected" /\ error' = "spawn" /\ vAllowance' = vAllowance
            /\ vReads' = vReads
       ELSE pc' = "val_bal" /\ error' = error
            /\ vAllowance' = stdout(r, allowance)
            /\ vReads' = 1
    /\ UNCHANGED <<node, step, caller, i, j, isMoving, isAnvilReady, retries,
                   difference, vBalance, exitCode, calls, invoked, successes, attempts, cbAttempts,
                   exhausted, cbRaised, validated, tpStart, tpStartAllowance,
                   tpOk, tpTopUp, tpClaw, tpClawN, transfersSent, driver>>

\* validate, lines 157-168: the balance query, then the two comparisons
ValidateBalance(r) ==
    /\ pc = "val_bal"
    /\ allOk' = (allOk /\ r = "ok")
    /\ balance0' = Keep(allOk', balance0, -1)
    /\ allowance0' = Keep(allOk', allowance0, -1)
    /\ IF r = "throw"
       THEN pc' = "rejected" /\ error' = "spawn" /\ vBalance' = vBalance
            /\ validated' = FALSE /\ vReads' = vReads
       ELSE LET e == validate(vAllowance, stdout(r, balance))
            IN  /\ vBalance' = stdout(r, balance)
                /\ error' = e
                /\ pc' = (IF e = "" THEN "resolved" ELSE "rejected")
                /\ validated' = (e = "")
                /\ vReads' = 2
    /\ UNCHANGED <<node, step, caller, i, j, isMoving, isAnvilReady, retries,
                   difference, vAllowance, exitCode, calls, invoked, successes, attempts, cbAttempts,
                   exhausted, cbRaised, tpStart, tpStartAllowance, tpOk, tpTopUp,
                   tpClaw, tpClawN, transfersSent, driver>>

\* ------------------------------------------------------------ exit

\* lines 342-346: main() rejected
Catch ==
    /\ pc = "rejected"
    /\ pc' = catchHandler.pc
    /\ exitCode' = (IF catchHandler.pc = "exited" THEN catchHandler.exitCode
                    ELSE exitCode)
    /\ UNCHANGED <<node, step, caller, i, j, isMoving, isAnvilReady, retries,
                   difference, vAllowance, vBalance, error, observed, driver,
                   initial>>

\* lines 347-349: main() resolved, or the .catch handler returned
Finally ==
    /\ pc = "resolved"
    /\ pc' = finallyHandler.pc
    /\ exitCode' = finallyHandler.exitCode
    /\ UNCHANGED <<node, step, caller, i, j, isMoving, isAnvilReady, retries,
                   difference, vAllowance, vBalance, error, observed, driver,
                   initial>>

\* ------------------------------------------------------------ specifications

Next ==
    \/ \E ok \in BOOLEAN : Ping(ok)
    \/ \E o \in SendOutcomes : Impersonate(o)
    \/ \E o \in SendOutcomes : Approve(o)
    \/ \E r \in ReadOutcomes : TransferRead(r)
    \/ \E r \in ReadOutcomes : ClearRead(r)
    \/ \E o \in SendOutcomes : ClearSend(o)
    \/ \E o \in SendOutcomes : TransferSend(o)
    \/ \E r \in ReadOutcomes : ValidateAllowance(r)
    \/ \E r \in ReadOutcomes : ValidateBalance(r)
    \/ Catch
    \/ Finally

Spec == Init /\ [][Next]_vars

\* the run on a fresh fork, where the funding wallet holds nothing and has
\* approved nothing; transfers that take effect while reported as failed
\* over-fund it, so these runs take every branch of every step
InitFair ==
    /\ Init
    /\ balance = 0
    /\ allowance = 0

\* main and its handlers, lines 323-349: the script runs on one thread, every
\* command is awaited and returns with one of its outcomes, so the process
\* keeps taking steps for as long as it has one to take
FairSpec == InitFair /\ [][Next]_vars /\ WF_vars(Next)

\* _transferPayload on its own: a driver invokes it up to MaxInvocations times
\* on a node in any state
InitReconcile ==
    /\ InitCommon
    /\ impersonated \in BOOLEAN
    /\ pc = "idle" /\ caller = "driver" /\ step = 3

\* transfers issued by the last invocation of _transferPayload
tpSent == tpClawN + (IF tpTopUp = -1 THEN 0 ELSE 1)

Invoke ==
    /\ pc = "idle"
    /\ invocations < MaxInvocations
    /\ invocations' = invocations + 1
    /\ pc' = "tp_read"
    /\ transfersSent' = Keep(allOk, transfersSent + tpSent, 0)
    /\ tpTopUp' = -1 /\ tpClaw' = -1 /\ tpClawN' = 0
    /\ UNCHANGED <<node, step, caller, i, j, isMoving, isAnvilReady, retries,
                   difference, vAllowance, vBalance, error, exitCode, calls, invoked, successes,
                   attempts, cbAttempts, exhausted, cbRaised, validated, vReads, tpOk,
                   tpStart, tpStartAllowance, allOk, lastResult,
                   initial>>

NextReconcile ==
    \/ Invoke
    \/ \E r \in ReadOutcomes : TransferRead(r)
    \/ \E r \in ReadOutcomes : ClearRead(r)
    \/ \E o \in SendOutcomes : ClearSend(o)
    \/ \E o \in SendOutcomes : TransferSend(o)

SpecReconcile == InitReconcile /\ [][NextReconcile]_vars

\* ------------------------------------------------------------ claims

\* the driver's last invocation of _transferPayload has returned or thrown
Returned1 == pc = "idle" /\ invocations >= 1

\* transfers issued by the driver's invocations so far
transfersTotal == transfersSent + tpSent

\* C1 (as claimed).  Top-up correctness: an invocation of _transferPayload that
\* starts with a balance B below expected.balance and whose commands all
\* succeed, the whale's transfer among them, has issued a transfer of exactly
\* expected.balance - B and returns with the balance at expected.balance.
C1_TopUpExact ==
    (Returned1 /\ tpOk /\ tpStart < expectedBalance /\ tpTopUp # -1)
        => (tpTopUp = expectedBalance - tpStart /\ balance = expectedBalance)

\* C2 (as claimed).  Claw-back correctness: an invocation of _transferPayload
\* that starts with a balance B above expected.balance, takes the claw-back
\* branch and whose commands all succeed has issued one transfer of exactly
\* B - expected.balance to the whale and returns with the balance at
\* expected.balance.
C2_ClawBackExact ==
    (Returned1 /\ tpOk /\ tpStart > expectedBalance /\ tpClawN >= 1)
        => (tpClawN = 1 /\ tpClaw = tpStart - expectedBalance
            /\ balance = expectedBalance)

\* C3 (as claimed).  Balance is never left above target: a run that exits with
\* status 0 after its last _transferPayload issued the whale's transfer, every
\* command of the run having succeeded, leaves the balance at expected.balance.
C3_ConvergedAtTarget ==
    (exitCode = 0 /\ allOk /\ tpOk /\ tpTopUp # -1) => balance = expectedBalance

\* C4 (as claimed).  Idempotent reconciliation: once the driver's invocations
\* of _transferPayload, all commands succeeding, have issued a transfer, the
\* balance is at expected.balance and no second transfer is ever issued.
C4_ConvergesInOneTransfer ==
    (Returned1 /\ allOk /\ transfersTotal >= 1)
        => (balance = expectedBalance /\ transfersTotal = 1)

\* C5.  Reconciler fixed point: an invocation of _transferPayload that starts
\* with the balance at expected.balance, and whose balance query returns it,
\* issues no transfer of either kind, leaves balance and allowance as they
\* were and returns true.
C5_FixedPoint ==
    (Returned1 /\ tpOk /\ tpStart = expectedBalance)
        => /\ lastResult = "true"
           /\ tpTopUp = -1 /\ tpClawN = 0 /\ tpSent = 0
           /\ balance = expectedBalance
           /\ allowance = tpStartAllowance

C5_Witness ==
    /\ Returned1 /\ tpOk /\ tpStart = expectedBalance
    /\ lastResult = "true" /\ balance = expectedBalance

\* C6.  Retry budget enforcement: retry never invokes its function more than
\* DefaultRetries times; when it gives up it has invoked it exactly
\* DefaultRetries times (after the one call execute made itself) and the run
\* has been rejected with retry's error; it never returns false, so execute's
\* isMoving is never cleared.
C6_RetryBudget ==
    /\ attempts <= DefaultRetries
    /\ cbAttempts <= DefaultRetries
    /\ exhausted # 0 =>
          /\ attempts = DefaultRetries
          /\ calls = DefaultRetries + 1
          /\ pc \in {"rejected", "exited"}
          /\ error = "Failed to execute function"
    /\ cbRaised => cbAttempts = DefaultRetries
    /\ isMoving

C6_Witness ==
    /\ exhausted # 0 /\ attempts = DefaultRetries
    /\ error = "Failed to execute function" /\ pc = "rejected"

\* C7.  Fail-fast ordering: once a step's retry has used up its budget the run
\* is over and failed: no command is pending, no later step's function has
\* been invoked, validate has not run and the exit status is not 0.
C7_FailFast ==
    exhausted # 0 =>
        /\ pc \in {"rejected", "exited"}
        /\ step = exhausted
        /\ \A s \in invoked : s <= exhausted
        /\ ~validated /\ vReads = 0
        /\ exitCode # 0
        /\ pc = "exited" => exitCode = 1

C7_Witness ==
    /\ exhausted = 2 /\ pc = "exited" /\ exitCode = 1
    /\ invoked = {1, 2}

\* C8 (as claimed).  Validation independence: when both queries of validate
\* have returned and the allowance read is a number below expected.allowance,
\* the run is rejected with the allowance error, whatever the balance read is.
\* (The claim says the same of a balance read below expected.balance and the
\* balance error; that half fails in the same way.)
C8_ValidationErrors ==
    (vReads = 2 /\ vAllowance # Empty /\ vAllowance < expectedAllowance)
        => (pc \in {"rejected", "exited"}
            /\ error = "Allowance is not set correctly")

\* C9 (as claimed).  Validation is the acceptance gate: a run exits with status
\* 0 only after validate has read the allowance and the balance as they are
\* after the last step and has found the allowance at or above
\* expected.allowance and the balance at or above expected.balance.
C9_AcceptanceGate ==
    exitCode = 0 =>
        /\ validated /\ vReads = 2
        /\ vAllowance = allowance /\ vBalance = balance
        /\ allowance >= expectedAllowance
        /\ balance >= expectedBalance

\* C10.  Process exit codes: the process exits with status 0 exactly when
\* validate passed; a run that was rejected with any error exits with status
\* 1, and the exit-0 handler never runs after the error handler.
C10_ExitCodes ==
    /\ exitCode \in {-1, 0, 1}
    /\ (exitCode # -1) <=> (pc = "exited")
    /\ exitCode = 0 => (validated /\ error = "")
    /\ (pc = "exited" /\ validated) => exitCode = 0
    /\ (pc = "exited" /\ error # "") => exitCode = 1
    /\ validated => error = ""

C10_Witness ==
    /\ pc = "exited" /\ exitCode = 1
    /\ error = "Balance is not set correctly"


\* C11: the readiness gate reports "Could not connect to Anvil" only when
\* every probe of the budget failed; a probe that succeeds, the last one
\* included, lets the run go on to the funding steps.
C11_ConnectErrorOnlyIfAllFailed ==
    error = "Could not connect to Anvil" => ~isAnvilReady

\* C12: no step function and no validation query is issued before a probe
\* has succeeded, and a run whose readiness budget is spent ends failed
\* having issued none of them.
C12_ReadinessGatesFunding ==
    /\ ~isAnvilReady =>
          /\ invoked = {} /\ calls = 0 /\ vReads = 0 /\ ~validated
          /\ ~impersonated
          /\ pc \in {"ping", "rejected", "exited"}
    /\ error = "Could not connect to Anvil" =>
          /\ invoked = {} /\ calls = 0 /\ vReads = 0 /\ ~validated
          /\ pc \in {"rejected", "exited"}
          /\ exitCode # 0
          /\ pc = "exited" => exitCode = 1
C12_Witness ==
    /\ pc = "exited" /\ exitCode = 1
    /\ ~isAnvilReady /\ retries = 0
    /\ error = "Could not connect to Anvil"

\* C13: from balance 0 and allowance 0, with the first probe answering and
\* every command succeeding, the run invokes impersonate, approve and
\* transfer in that order, each exactly once and without a claw-back, the
\* one transfer sends expected.balance, and the process exits 0 with the
\* balance equal to expected.balance and the allowance at
\* expected.allowance.
C13_EndToEnd ==
    (balance0 = 0 /\ allowance0 = 0 /\ allOk) =>
        /\ calls <= 1 /\ attempts = 0 /\ cbAttempts = 0 /\ exhausted = 0
        /\ pc \notin {"rejected", "cb_read", "cb_send"}
        /\ \A s \in 1..3 : successes[s] = (IF s \in invoked /\ (s < step \/ pc \in {"val_allow", "val_bal", "resolved", "exited"}) THEN 1 ELSE 0)
        /\ \A s \in invoked : \A t \in 1..(s - 1) : successes[t] = 1
        /\ pc = "impersonate" => (invoked = {} /\ balance = 0 /\ allowance = 0)
        /\ pc = "approve" => (invoked = {1} /\ impersonated /\ allowance = 0)
        /\ pc = "tp_read" =>
              (invoked = {1, 2} /\ allowance = expectedAllowance /\ balance = 0)
        /\ pc = "tp_send" => (invoked = {1, 2, 3} /\ balance = 0)
        /\ pc \in {"val_allow", "val_bal", "resolved", "exited"} =>
              /\ invoked = {1, 2, 3}
              /\ tpTopUp = expectedBalance /\ tpClawN = 0
              /\ balance = expectedBalance
              /\ allowance >= expectedAllowance
        /\ pc = "exited" => (exitCode = 0 /\ validated /\ error = "")
C13_Witness ==
    /\ balance0 = 0 /\ allowance0 = 0 /\ allOk
    /\ pc = "exited" /\ exitCode = 0
    /\ balance = expectedBalance /\ allowance = expectedAllowance
    /\ successes = [s \in 1..3 |-> 1]

\* C14: an exception thrown by the command runner during an attempt of a
\* step, the first attempt included, is caught and counted as a failed
\* attempt: a run is aborted during the impersonation or the approval step
\* only when that step's retry budget has been exhausted.
C14_AbortOnlyOnExhaustedBudget ==
    (pc \in {"rejected", "exited"} /\ invoked # {} /\ step < 3) =>
        (exhausted # 0 /\ error = "Failed to execute function")

\* C15 as stated: whatever the allowance was at the start, the allowance is
\* never below it afterwards.
C15_NeverBelowStart ==
    allowance0 # -1 => allowance >= allowance0

\* C15, amended: an approval that is applied sets the allowance to exactly
\* expected.allowance, an approval that is not applied leaves it as it was,
\* and nothing but the approval step changes it; so the allowance is its
\* starting value or expected.allowance, and only a starting value above
\* expected.allowance is ever lowered.
C15_ApproveSetsFloor ==
    /\ [](allowance0 # -1 => allowance \in {allowance0, expectedAllowance})
    /\ [][allowance' # allowance =>
            (pc = "approve" /\ allowance' = expectedAllowance)]_vars
C15_Witness ==
    /\ allowance0 > expectedAllowance
    /\ allowance = expectedAllowance
    /\ pc = "tp_read" /\ successes[2] = 1

C17_FixedOrderSequential ==
    /\ pc = "impersonate" => step = 1
    /\ pc = "approve" => step = 2
    /\ pc \in {"tp_read", "cb_read", "cb_send", "tp_send"} => step = 3
    /\ pc \in {"impersonate", "approve", "tp_read", "cb_read", "cb_send", "tp_send"}
          => \A t \in 1..(step - 1) : successes[t] = 1
    /\ invoked \subseteq 1..step
    /\ \A s \in invoked : \A t \in 1..(s - 1) : t \in invoked /\ successes[t] = 1
    /\ \A s \in 1..3 : successes[s] <= 1 /\ (successes[s] = 1 => s \in invoked)
    /\ pc \in {"val_allow", "val_bal", "resolved"} => successes = [s \in 1..3 |-> 1]
C17_Witness ==
    /\ pc = "val_allow" /\ ~allOk
    /\ invoked = {1, 2, 3}
    /\ successes = [s \in 1..3 |-> 1]

C19_StepAttemptBound ==
    /\ calls \in 0..(DefaultRetries + 1)
    /\ attempts \in 0..DefaultRetries
    /\ calls = attempts + (IF calls > 0 THEN 1 ELSE 0)
    /\ (calls = DefaultRetries + 1 /\ pc \notin {"cb_read", "cb_send", "tp_send"})
          => exhausted = step
    /\ exhausted # 0 =>
          /\ exhausted = step
          /\ calls = DefaultRetries + 1
          /\ successes[exhausted] = 0
          /\ pc \in {"rejected", "exited"}
          /\ vReads = 0 /\ ~validated
          /\ exitCode # 0
          /\ pc = "exited" => exitCode = 1
C19_Witness ==
    /\ exhausted = 3 /\ ~cbRaised
    /\ calls = DefaultRetries + 1
    /\ pc = "exited" /\ exitCode = 1

\* C20: a claw-back attempt reads the balance anew and sends back that
\* balance less expected.balance, so after any number of claw-back attempts
\* of an invocation of _transferPayload, whether reported as failed or not,
\* the funding wallet still holds at least expected.balance.
C20_ClawBackNeverBelowTarget ==
    (pc \in {"cb_read", "cb_send", "tp_send"} /\ cbAttempts >= 1)
        => balance >= expectedBalance

====
